---- MODULE Spec2Model ----
(***************************************************************************)
(* Model of EXP_CODE.ino: a single-axis stepper actuator driven over a     *)
(* line-oriented serial protocol (CALIBRATE, TARGET:<mm>, MANUAL:*, REST). *)
(*                                                                         *)
(* Lengths are integers in units of 1e-7 mm, so MM_PER_PULSE (0.0000508    *)
(* mm) is 508 and every tracked position the code can compute after a      *)
(* calibration is an exact integer.  The argument of moveToTarget is a     *)
(* float (binary32): the decimal of the command is rounded to the nearest  *)
(* binary32 before it is divided by MM_PER_PULSE, which decides the        *)
(* rounding of a target that lies on or next to the half way between two   *)
(* steps (see targetStepsOf).  The width of double is that of the board:   *)
(* binary64, or binary32 on the 8-bit AVR boards; the sketch does not name *)
(* the board, so each moveToTarget takes either (the two agree on every    *)
(* target of the model, and differ on some half steps from 4.5 steps up).  *)
(* Every other quotient handed to round() is within 1e-6 of an integer.    *)
(* Decimals are below 2^30 in magnitude (107 mm).                          *)
(*                                                                         *)
(* The main thread is a program counter pc over the labels of loop() and   *)
(* of the handlers.  The contact line is an input that the sketch does not *)
(* control: it may change between any two statements of the main thread    *)
(* (ContactChange is enabled at every label) and during a step pulse; a    *)
(* falling edge runs contactInterruptHandler.  Every live read of the line *)
(* (digitalRead) is a step of its own, separate from the pulse or the      *)
(* delay that follows it in the source.                                    *)
(***************************************************************************)
EXTENDS Integers, Sequences, FiniteSets, TLC

\* ------------------------------------------------------------------------
\* Program constants
\* ------------------------------------------------------------------------
\* const double MM_PER_PULSE = 0.00005080 (mm), in units of 1e-7 mm
MM_PER_PULSE == 508
\* const int STEPS_PER_COMMAND = 20
STEPS_PER_COMMAND == 20
\* double currentPosition = -999: the "null" marker of the tracked
\* position (-999 mm).  It is kept as the literal: it never enters any
\* arithmetic (every computation on currentPosition is behind isCalibrated,
\* and calibration overwrites it with 0), and it is no multiple of
\* MM_PER_PULSE, so it cannot be confused with a calibrated position.
NullPosition == -999

\* ------------------------------------------------------------------------
\* Bounds of the model
\* ------------------------------------------------------------------------
\* number of commands read from the serial line in one run
MaxCmds == 4
\* largest requested target, in half pulses
MaxTargetHalfSteps == 3
\* pulses explored in one calibration before the run is cut off
MaxCalPulses == 3

\* requested targets (TARGET:<mm>), in 1e-7 mm: decimals off the pulse grid
\* on either side of each half step, and the decimal 0.0000762 that lies
\* exactly on a half step (1.5 pulses)
Targets == { h * (MM_PER_PULSE \div 2) + 40 : h \in -2..MaxTargetHalfSteps }
           \cup { 3 * (MM_PER_PULSE \div 2) }

CommandNames == { "CALIBRATE", "TARGET:", "MANUAL:READY", "MANUAL:COMPLETE",
                  "MANUAL:CW", "MANUAL:CCW", "MANUAL:STOP", "REST", "bogus" }

\* the trimmed command lines the transport can deliver
Commands == [name : CommandNames \ {"TARGET:"}, mm : {0}]
            \cup [name : {"TARGET:"}, mm : Targets]

NoCommand == [name |-> "none", mm |-> 0]

VARIABLES
  \* ---- globals of the sketch
  currentPosition,       \* tracked position (1e-7 mm), NullPosition at start
  contactDetected,       \* volatile flag written by the interrupt handler
  isCalibrated,
  manualControlActive,
  \* ---- output pins
  DIR_PIN,               \* "LOW" = CCW = toward the hard-stop
  ENA_PIN,               \* "LOW" = driver enabled
  \* ---- input pin
  contactPin,            \* "LOW" = in contact
  \* ---- control state of the main thread
  pc,
  command,               \* the command being (or last) executed
  mm,                    \* moveToTarget: argument
  stepsToMove,           \* moveToTarget: signed step delta
  absStepsToMove,
  startPosition,
  i,                     \* loop index of the running for-loop
  \* ---- serial output of the current command, one entry per line
  out,
  \* ---- history (observers; never read by the program)
  pulses,                \* pulses issued by the current command
  lastPulse,             \* the most recent pulse of the current command:
                         \* who, direction, lines
  netPulses,             \* away minus toward pulses since last calibration
  entry,                 \* the state at the moment the command was read
  sinceContact,          \* MANUAL:CCW: pulses issued since the line first
                         \* read LOW at or after the read at entry (2 for 2
                         \* or more), -1 while it has not
  prev,                  \* summary of the previous command
  nCmds,
  edgeSeen               \* CALIBRATE: the interrupt handler ran since the
                         \* command was read or, later, since the flag was
                         \* cleared

progVars  == <<currentPosition, contactDetected, isCalibrated,
               manualControlActive, DIR_PIN, ENA_PIN>>
localVars == <<mm, stepsToMove, absStepsToMove, startPosition, i>>
histVars  == <<pulses, lastPulse, netPulses, entry, sinceContact, prev, nCmds,
               edgeSeen>>
vars == <<currentPosition, contactDetected, isCalibrated, manualControlActive,
          DIR_PIN, ENA_PIN, contactPin, pc, command, mm, stepsToMove,
          absStepsToMove, startPosition, i, out, pulses, lastPulse,
          netPulses, entry, sinceContact, prev, nCmds, edgeSeen>>

Levels == {"LOW", "HIGH"}

\* ------------------------------------------------------------------------
\* Pure helpers
\* ------------------------------------------------------------------------
\* Arduino's round(x): ((x)>=0 ? (long)((x)+0.5) : (long)((x)-0.5)),
\* applied to the quotient num/den (den > 0); (long) truncates toward zero.
round(num, den) ==
  IF num >= 0 THEN (2 * num + den) \div (2 * den)
              ELSE -((2 * (-num) + den) \div (2 * den))

abs(x) == IF x >= 0 THEN x ELSE -x

\* one serial line: a tag and, where the line prints a number, the number
Line(tag, val) == <<tag, val>>

\* attachInterrupt(contactPin, contactInterruptHandler, FALLING):
\* the handler runs on a HIGH -> LOW transition and sets the flag.
contactInterruptHandler(flag, old, new) ==
  IF old = "HIGH" /\ new = "LOW" THEN TRUE ELSE flag

\* an if-chain whose MANUAL:STOP branch was pasted from MANUAL:COMPLETE
Branch_stopCompletes(c, gate) ==
  IF c.name = "CALIBRATE" THEN "runCalibration"
  ELSE IF c.name = "TARGET:" THEN "moveToTarget"
  ELSE IF c.name = "MANUAL:READY" THEN "ready"
  ELSE IF c.name = "MANUAL:COMPLETE" THEN "complete"
  ELSE IF c.name = "MANUAL:CW" /\ gate THEN "manualStepCW"
  ELSE IF c.name = "MANUAL:CCW" /\ gate THEN "manualStepCCW"
  ELSE IF c.name = "MANUAL:STOP" THEN "complete"
  ELSE IF c.name = "REST" THEN "stopMotor"
  ELSE "unknown"

\* which branch of loop()'s if-chain a command takes
Branch(c, gate) ==
  IF c.name = "CALIBRATE" THEN "runCalibration"
  ELSE IF c.name = "TARGET:" THEN "moveToTarget"
  ELSE IF c.name = "MANUAL:READY" THEN "ready"
  ELSE IF c.name = "MANUAL:COMPLETE" THEN "complete"
  ELSE IF c.name = "MANUAL:CW" /\ gate THEN "manualStepCW"
  ELSE IF c.name = "MANUAL:CCW" /\ gate THEN "manualStepCCW"
  ELSE IF c.name = "MANUAL:STOP" THEN "manualStopMotor"
  ELSE IF c.name = "REST" THEN "stopMotor"
  ELSE "unknown"

Snapshot == [pos |-> currentPosition, cal |-> isCalibrated,
             manual |-> manualControlActive, dir |-> DIR_PIN,
             ena |-> ENA_PIN, flag |-> contactDetected, pin |-> contactPin]

HasLine(o, tag) == \E k \in 1..Len(o) : o[k][1] = tag

UnexpectedContact == "ERROR:Unexpected contact detected!"
AlreadyDetected == "WARNING: Contact already detected!"
DuringMovement == "WARNING: Contact detected during movement!"

\* ------------------------------------------------------------------------
\* Initial state: globals as initialised, output pins LOW after pinMode
\* ------------------------------------------------------------------------
NoPulse == [by |-> "none", dir |-> "LOW", pin |-> "HIGH", ena |-> "LOW"]

Init ==
  /\ currentPosition = NullPosition
  /\ contactDetected = FALSE
  /\ isCalibrated = FALSE
  /\ manualControlActive = FALSE
  /\ DIR_PIN = "LOW"
  /\ ENA_PIN = "LOW"
  /\ contactPin \in Levels
  /\ pc = "idle"
  /\ command = NoCommand
  /\ mm = 0 /\ stepsToMove = 0 /\ absStepsToMove = 0
  /\ startPosition = 0 /\ i = 0
  /\ out = <<>>
  /\ pulses = 0
  /\ lastPulse = NoPulse
  /\ netPulses = 0
  /\ entry = [pos |-> NullPosition, cal |-> FALSE, manual |-> FALSE,
              dir |-> "LOW", ena |-> "LOW", flag |-> FALSE, pin |-> "HIGH"]
  /\ sinceContact = -1
  /\ prev = [name |-> "none", mm |-> 0, ok |-> FALSE]
  /\ nCmds = 0
  /\ edgeSeen = FALSE

\* ------------------------------------------------------------------------
\* The contact line changes level; the main thread may be at any label.
\* A falling edge runs the interrupt handler attached at line 34.
\* ------------------------------------------------------------------------
\* the labels of runCalibration, and those of the for loop of manualStepCCW
CalLabels == {"runCalibration", "cal_clear", "cal_read", "cal_loop",
              "cal_step", "cal_done"}
CcwLabels == {"ccw_loop", "ccw_step"}

ContactChange ==
  /\ \E lvl \in Levels :
       /\ lvl # contactPin
       /\ contactPin' = lvl
       /\ contactDetected' = contactInterruptHandler(contactDetected,
                                                     contactPin, lvl)
       /\ edgeSeen' = (edgeSeen \/ (pc \in CalLabels /\ contactPin = "HIGH"
                                       /\ lvl = "LOW"))
       /\ sinceContact' = IF pc \in CcwLabels /\ sinceContact = -1
                             /\ lvl = "LOW"
                          THEN 0 ELSE sinceContact
  /\ UNCHANGED <<currentPosition, isCalibrated, manualControlActive,
                 DIR_PIN, ENA_PIN, pc, command, localVars, out, pulses,
                 lastPulse, netPulses, entry, prev, nCmds>>

\* ------------------------------------------------------------------------
\* stepMotor(): one pulse on PUL_PIN (two waits of stepDelay).  The axis
\* moves during the pulse, so the contact line may read either level
\* afterwards.  edge says that the line fell at some moment of the pulse
\* and the interrupt handler ran: it did if the line was open before and is
\* in contact after, and it may have in every other case (the line fell
\* and rose again, or rose and fell).  by names the calling handler.
\* ------------------------------------------------------------------------
stepMotor(by) ==
  \E lvl \in Levels, edge \in BOOLEAN :
    /\ (contactPin = "HIGH" /\ lvl = "LOW") => edge
    /\ contactPin' = lvl
    /\ contactDetected' =
         IF edge THEN contactInterruptHandler(contactDetected, "HIGH", "LOW")
                 ELSE contactDetected
    /\ pulses' = pulses + 1
    /\ lastPulse' = [by |-> by, dir |-> DIR_PIN, pin |-> contactPin,
                     ena |-> ENA_PIN]
    /\ netPulses' = IF DIR_PIN = "HIGH" THEN netPulses + 1 ELSE netPulses - 1
    /\ sinceContact' = IF pc \notin CcwLabels THEN sinceContact
                       ELSE IF sinceContact = -1
                            THEN (IF lvl = "LOW" \/ edge THEN 0 ELSE -1)
                       ELSE IF sinceContact = 0 THEN 1
                       ELSE 2
    /\ edgeSeen' = (edgeSeen \/ (pc \in CalLabels /\ edge))

\* ------------------------------------------------------------------------
\* loop(): read one command and dispatch it
\* ------------------------------------------------------------------------
loop ==
  /\ pc = "idle"
  /\ nCmds < MaxCmds
  /\ \E c \in Commands :
       LET b == Branch(c, manualControlActive) IN
       /\ command' = c
       /\ manualControlActive' =
            IF b = "ready" THEN TRUE
            ELSE IF b = "complete" THEN FALSE
            ELSE manualControlActive
       /\ out' = IF b = "complete" THEN <<Line("STATUS:MANUAL_COMPLETE", 0)>>
                 ELSE IF b = "unknown" THEN <<Line("Unknown command: ", 0)>>
                 ELSE <<>>
       /\ pc' = IF b \in {"ready", "complete", "unknown"} THEN "idle" ELSE b
       /\ mm' = IF b = "moveToTarget" THEN c.mm ELSE 0
  /\ nCmds' = nCmds + 1
  /\ pulses' = 0
  /\ edgeSeen' = FALSE
  /\ entry' = Snapshot
  /\ sinceContact' = -1
  /\ lastPulse' = NoPulse
  /\ prev' = [name |-> command.name, mm |-> command.mm,
              ok |-> /\ command.name = "TARGET:"
                     /\ HasLine(out, "STATUS:TARGET_COMPLETE")
                     /\ ~HasLine(out, UnexpectedContact)]
  /\ UNCHANGED <<currentPosition, contactDetected, isCalibrated, DIR_PIN,
                 ENA_PIN, contactPin, stepsToMove, absStepsToMove,
                 startPosition, i, netPulses>>

\* ------------------------------------------------------------------------
\* manualStopMotor() and stopMotor()
\* ------------------------------------------------------------------------
manualStopMotor ==
  /\ pc = "manualStopMotor"
  /\ out' = Append(out, Line("POSITION:", currentPosition))
  /\ pc' = "idle"
  /\ UNCHANGED <<progVars, contactPin, command, localVars, histVars>>

\* a rest that also forgets the tracked position
stopMotor_resetsPosition ==
  /\ pc = "stopMotor"
  /\ ENA_PIN' = "HIGH"
  /\ currentPosition' = NullPosition
  /\ out' = out \o <<Line("Entering Rest State.", 0),
                     Line("POSITION:", currentPosition)>>
  /\ pc' = "idle"
  /\ UNCHANGED <<contactDetected, isCalibrated, manualControlActive,
                 DIR_PIN, contactPin, command, localVars, histVars>>

\* a rest that also drops the calibration
stopMotor_decalibrates ==
  /\ pc = "stopMotor"
  /\ ENA_PIN' = "HIGH"
  /\ isCalibrated' = FALSE
  /\ out' = out \o <<Line("Entering Rest State.", 0),
                     Line("POSITION:", currentPosition)>>
  /\ pc' = "idle"
  /\ UNCHANGED <<currentPosition, contactDetected, manualControlActive,
                 DIR_PIN, contactPin, command, localVars, histVars>>

stopMotor ==
  /\ pc = "stopMotor"
  /\ ENA_PIN' = "HIGH"
  /\ out' = out \o <<Line("Entering Rest State.", 0),
                     Line("POSITION:", currentPosition)>>
  /\ pc' = "idle"
  /\ UNCHANGED <<currentPosition, contactDetected, isCalibrated,
                 manualControlActive, DIR_PIN, contactPin, command,
                 localVars, histVars>>

\* a handler that forgets the calibration gate
notCalibrated_missing(cal) == FALSE

\* lines 112, 178, 209: if (!isCalibrated) { ERROR:NOT_CALIBRATED; return; }
notCalibrated(cal) == ~cal

\* locals of a handler go out of scope when it returns to loop()
Return ==
  /\ pc' = "idle"
  /\ mm' = 0 /\ stepsToMove' = 0 /\ absStepsToMove' = 0
  /\ startPosition' = 0 /\ i' = 0

\* ------------------------------------------------------------------------
\* runCalibration()
\* ------------------------------------------------------------------------
\* lines 87-90: announce, direction toward the hard-stop, driver enabled
calStart ==
  /\ pc = "runCalibration"
  /\ out' = Append(out, Line("STATUS:CALIBRATION_START", 0))
  /\ DIR_PIN' = "LOW"
  /\ ENA_PIN' = "LOW"
  /\ pc' = "cal_clear"
  /\ UNCHANGED <<currentPosition, contactDetected, isCalibrated,
                 manualControlActive, contactPin, command, localVars,
                 histVars>>

\* a calibration that does not clear the flag at entry
calClear_missing ==
  /\ pc = "cal_clear"
  /\ edgeSeen' = FALSE
  /\ pc' = "cal_read"
  /\ UNCHANGED <<progVars, contactPin, command, localVars, out, pulses,
                 lastPulse, netPulses, entry, sinceContact, prev, nCmds>>

\* line 91: contactDetected = false
calClear ==
  /\ pc = "cal_clear"
  /\ contactDetected' = FALSE
  /\ edgeSeen' = FALSE
  /\ pc' = "cal_read"
  /\ UNCHANGED <<currentPosition, isCalibrated, manualControlActive, DIR_PIN,
                 ENA_PIN, contactPin, command, localVars, out, pulses,
                 lastPulse, netPulses, entry, sinceContact, prev, nCmds>>

\* a live read at entry that reports the contact but still enters the
\* pulse loop with the flag down
calRead_noFlag ==
  /\ pc = "cal_read"
  /\ out' = IF contactPin = "LOW"
            THEN Append(out, Line("Contact already detected!", 0))
            ELSE out
  /\ pc' = "cal_loop"
  /\ UNCHANGED <<progVars, contactPin, command, localVars, histVars>>

\* a calibration without the live read at entry
calRead_noLiveRead ==
  /\ pc = "cal_read"
  /\ pc' = "cal_loop"
  /\ UNCHANGED <<progVars, contactPin, command, localVars, out, histVars>>

\* lines 92-96: the live read at entry
calRead ==
  /\ pc = "cal_read"
  /\ IF contactPin = "LOW"
     THEN /\ contactDetected' = TRUE
          /\ out' = Append(out, Line("Contact already detected!", 0))
          /\ pc' = "cal_done"
     ELSE /\ pc' = "cal_loop"
          /\ UNCHANGED <<contactDetected, out>>
  /\ UNCHANGED <<currentPosition, isCalibrated, manualControlActive, DIR_PIN,
                 ENA_PIN, contactPin, command, localVars, histVars>>

\* a pulse loop that polls the live level instead of the latched flag
calLoop_liveLevel ==
  /\ pc = "cal_loop"
  /\ pc' = IF contactPin = "HIGH" THEN "cal_step" ELSE "cal_done"
  /\ UNCHANGED <<progVars, contactPin, command, localVars, out, histVars>>

\* line 97: while (!contactDetected)
calLoop ==
  /\ pc = "cal_loop"
  /\ pc' = IF ~contactDetected THEN "cal_step" ELSE "cal_done"
  /\ UNCHANGED <<progVars, contactPin, command, localVars, out, histVars>>

\* line 98: stepMotor()
calStep ==
  /\ pc = "cal_step"
  /\ pulses < MaxCalPulses
  /\ stepMotor("CALIBRATE")
  /\ pc' = "cal_loop"
  /\ UNCHANGED <<currentPosition, isCalibrated, manualControlActive, DIR_PIN,
                 ENA_PIN, command, localVars, out, entry, prev, nCmds>>

\* a calibration that leaves the driver enabled on return
calDone_keepsEnabled ==
  /\ pc = "cal_done"
  /\ currentPosition' = 0
  /\ isCalibrated' = TRUE
  /\ out' = out \o <<Line("POSITION:", 0),
                     Line("STATUS:CALIBRATION_COMPLETE", 0)>>
  /\ netPulses' = 0
  /\ Return
  /\ UNCHANGED <<contactDetected, manualControlActive, DIR_PIN, ENA_PIN,
                 contactPin, command, pulses, lastPulse, entry,
                 sinceContact, prev, nCmds, edgeSeen>>

\* lines 101-105: zero the position, mark calibrated, disable the driver.
\* netPulses restarts: the position reference is the hard-stop found now.
calDone ==
  /\ pc = "cal_done"
  /\ currentPosition' = 0
  /\ isCalibrated' = TRUE
  /\ ENA_PIN' = "HIGH"
  /\ out' = out \o <<Line("POSITION:", 0),
                     Line("STATUS:CALIBRATION_COMPLETE", 0)>>
  /\ netPulses' = 0
  /\ Return
  /\ UNCHANGED <<contactDetected, manualControlActive, DIR_PIN, contactPin,
                 command, pulses, lastPulse, entry, sinceContact, prev,
                 nCmds, edgeSeen>>

\* ------------------------------------------------------------------------
\* moveToTarget(mm)
\* ------------------------------------------------------------------------
\* line 54 and line 111: the decimal of the command becomes float mm, the
\* binary32 nearest to it.  A decimal n (units of 1e-7 mm) is n / (2^7 * 5^7)
\* mm, so its binary expansion is that of n / 5^7.
\* FloatScale(q, r, j) is <<floor(n * 2^j / 5^7), (n * 2^j) % 5^7>> given
\* q = n \div 5^7 and r = n % 5^7.
RECURSIVE FloatScale(_, _, _)
FloatScale(q, r, j) ==
  IF j = 0 THEN <<q, r>>
  ELSE FloatScale(2 * q + (IF 2 * r >= 5^7 THEN 1 ELSE 0), (2 * r) % 5^7,
                  j - 1)

\* the number of binary places that give n > 0 a 24-bit significand
RECURSIVE FloatPlaces(_, _, _)
FloatPlaces(q, r, j) ==
  IF q >= 2^23 THEN j
  ELSE FloatPlaces(2 * q + (IF 2 * r >= 5^7 THEN 1 ELSE 0), (2 * r) % 5^7,
                   j + 1)

\* toFloat(n) for a decimal n > 0: sig * 2^-(places + 7) mm, the
\* significand rounded to nearest (n * 2^places / 5^7 is never half way)
toFloat(n) ==
  LET j == FloatPlaces(n \div 5^7, n % 5^7, 0)
      s == FloatScale(n \div 5^7, n % 5^7, j)
  IN  [sig |-> s[1] + (IF 2 * s[2] > 5^7 THEN 1 ELSE 0), places |-> j]

\* toFloat(n) >= t, for decimals n > 0 and t > 0: the significand of n
\* against t at the same number of binary places
toFloatAtLeast(n, t) ==
  LET x  == toFloat(n)
      st == FloatScale(t \div 5^7, t % 5^7, x.places)
  IN  x.sig > st[1] \/ (x.sig = st[1] /\ st[2] = 0)

\* line 121 on a board whose double is binary64: the quotient of the float
\* mm by MM_PER_PULSE carries 29 bits more than mm, so round() sees the
\* side of the half step on which the binary32 of the decimal lies:
\* TARGET:0.0000762 (1.5 steps) gives 1, TARGET:0.0000254 (0.5 steps) 1.
targetStepsDouble(a) ==
  LET k   == round(a, MM_PER_PULSE)
      up  == k * MM_PER_PULSE + MM_PER_PULSE \div 2
      low == k * MM_PER_PULSE - MM_PER_PULSE \div 2
  IN  IF toFloatAtLeast(a, up) THEN k + 1
      ELSE IF k > 0 /\ ~toFloatAtLeast(a, low) THEN k - 1
      ELSE k

\* binary32 division of significands: floor(x * 2^s / d) from q = x \div d
\* and r = x % d, then rounded to nearest, ties to even
RECURSIVE FloatQuotient(_, _, _, _)
FloatQuotient(q, r, d, s) ==
  IF s = 0
  THEN q + (IF 2 * r > d \/ (2 * r = d /\ q % 2 = 1) THEN 1 ELSE 0)
  ELSE FloatQuotient(2 * q + (IF 2 * r >= d THEN 1 ELSE 0),
                     IF 2 * r >= d THEN 2 * r - d ELSE 2 * r, d, s - 1)

\* line 121 on a board whose double is binary32 (the 8-bit AVR boards):
\* MM_PER_PULSE, the quotient and the sum with 0.5 of round() are each
\* rounded to 24 bits, then the sum is truncated.  TARGET:0.0002286 (4.5
\* steps) gives 5 here and 4 where double is binary64.
targetStepsFloat(a) ==
  LET x    == toFloat(a)
      c    == toFloat(MM_PER_PULSE)
      s    == IF x.sig >= c.sig THEN 23 ELSE 24
      mq   == FloatQuotient(x.sig \div c.sig, x.sig % c.sig, c.sig, s)
      e    == x.places - c.places + s      \* the quotient is mq * 2^-e
      n    == mq + 2^(e - 1)               \* quotient + 0.5, in units 2^-e
      half == n \div 2
      h    == IF n >= 2^24
              THEN half + (IF n % 2 = 1 /\ half % 2 = 1 THEN 1 ELSE 0)
              ELSE n
      he   == IF n >= 2^24 THEN e - 1 ELSE e
  IN  IF e - 1 > 24 THEN 0 ELSE h \div 2^he

\* sizeof(double) * 8: the sketch does not fix the board
DoubleBits == {32, 64}

\* line 121: long targetSteps = round(mm / MM_PER_PULSE)
targetStepsOf(m, bits) ==
  LET a     == abs(m)
      steps == IF a = 0 THEN 0
               ELSE IF bits = 32 THEN targetStepsFloat(a)
               ELSE targetStepsDouble(a)
  IN  IF m >= 0 THEN steps ELSE -steps

\* line 122: float snappedTarget = targetSteps * MM_PER_PULSE
snappedTargetOf(m, bits) == targetStepsOf(m, bits) * MM_PER_PULSE

\* line 123: stepsToMove = round((snappedTarget - currentPosition)
\*                               / MM_PER_PULSE)
stepsToMoveOf(m, pos, bits) ==
  round(snappedTargetOf(m, bits) - pos, MM_PER_PULSE)

\* the two direction levels exchanged
directionOf_swapped(steps) == IF steps > 0 THEN "LOW" ELSE "HIGH"

\* lines 129-133: direction from the sign of the delta
directionOf(steps) == IF steps > 0 THEN "HIGH" ELSE "LOW"

\* lines 149-153: the tracked position written after the pulse of
\* iteration idx
positionAfterPulse(start, steps, idx) ==
  IF steps > 0 THEN start + idx * MM_PER_PULSE
               ELSE start - idx * MM_PER_PULSE

\* line 161: the safety check made after the pulse
contactAbort(pin, dir) == pin = "LOW" /\ dir = "LOW"

\* lines 112-136: the gate, the plan, direction and enable
mvEntry ==
  /\ pc = "moveToTarget"
  /\ IF notCalibrated(isCalibrated)
     THEN /\ out' = Append(out, Line("ERROR:NOT_CALIBRATED", 0))
          /\ Return
          /\ UNCHANGED <<DIR_PIN, ENA_PIN>>
     ELSE \E bits \in DoubleBits :
          LET steps == stepsToMoveOf(mm, currentPosition, bits) IN
          /\ out' = out \o <<Line("Moving to target distance: ", mm),
                             Line("Steps to move: ", steps)>>
          /\ stepsToMove' = steps
          /\ DIR_PIN' = directionOf(steps)
          /\ ENA_PIN' = "LOW"
          /\ pc' = "mv_delay"
          /\ UNCHANGED <<mm, absStepsToMove, startPosition, i>>
  /\ UNCHANGED <<currentPosition, contactDetected, isCalibrated,
                 manualControlActive, contactPin, command, histVars>>

\* lines 137-146: after delay(10), the pulse count, the start position and
\* the initialisation of the for loop
mvDelay ==
  /\ pc = "mv_delay"
  /\ absStepsToMove' = abs(stepsToMove)
  /\ startPosition' = currentPosition
  /\ i' = 0
  /\ pc' = "mv_loop"
  /\ UNCHANGED <<progVars, contactPin, command, mm, stepsToMove, out,
                 histVars>>

\* lines 146-158: one pulse, then the position of this iteration and the
\* progress report
mvStep ==
  /\ pc = "mv_loop"
  /\ i < absStepsToMove
  /\ stepMotor("TARGET:")
  /\ currentPosition' = positionAfterPulse(startPosition, stepsToMove, i)
  /\ out' = IF i % 100 = 0
            THEN Append(out, Line("POSITION:", currentPosition'))
            ELSE out
  /\ pc' = "mv_check"
  /\ UNCHANGED <<isCalibrated, manualControlActive, DIR_PIN, ENA_PIN,
                 command, localVars, entry, prev, nCmds>>

\* an abort that reports the error but does not leave the loop
mvCheck_noBreak ==
  /\ pc = "mv_check"
  /\ out' = IF contactAbort(contactPin, DIR_PIN)
            THEN out \o <<Line("POSITION:", currentPosition),
                          Line(UnexpectedContact, 0)>>
            ELSE out
  /\ i' = i + 1
  /\ pc' = "mv_loop"
  /\ UNCHANGED <<progVars, contactPin, command, mm, stepsToMove,
                 absStepsToMove, startPosition, histVars>>

\* lines 161-166 and the i++ of the for statement
mvCheck ==
  /\ pc = "mv_check"
  /\ IF contactAbort(contactPin, DIR_PIN)
     THEN /\ out' = out \o <<Line("POSITION:", currentPosition),
                             Line(UnexpectedContact, 0)>>
          /\ pc' = "mv_done"
          /\ UNCHANGED i
     ELSE /\ i' = i + 1
          /\ pc' = "mv_loop"
          /\ UNCHANGED out
  /\ UNCHANGED <<progVars, contactPin, command, mm, stepsToMove,
                 absStepsToMove, startPosition, histVars>>

\* lines 169-171, reached when the loop runs out or after the break
mvDone ==
  /\ \/ pc = "mv_done"
     \/ pc = "mv_loop" /\ ~(i < absStepsToMove)
  /\ out' = out \o <<Line("POSITION:", currentPosition),
                     Line("STATUS:TARGET_COMPLETE", 0)>>
  /\ Return
  /\ UNCHANGED <<progVars, contactPin, command, histVars>>

\* ------------------------------------------------------------------------
\* manualStepCCW()
\* ------------------------------------------------------------------------
\* lines 178-187: the gate, direction and enable, the flag cleared
ccwEntry ==
  /\ pc = "manualStepCCW"
  /\ IF notCalibrated(isCalibrated)
     THEN /\ out' = Append(out, Line("ERROR:NOT_CALIBRATED", 0))
          /\ Return
          /\ UNCHANGED <<DIR_PIN, ENA_PIN, contactDetected>>
     ELSE /\ DIR_PIN' = "LOW"
          /\ ENA_PIN' = "LOW"
          /\ contactDetected' = FALSE
          /\ pc' = "ccw_read"
          /\ UNCHANGED <<out, localVars>>
  /\ UNCHANGED <<currentPosition, isCalibrated, manualControlActive,
                 contactPin, command, histVars>>

\* lines 188-195: the live read at entry, the warning and the return if it
\* finds contact, the initialisation of the for loop if it does not
ccwRead ==
  /\ pc = "ccw_read"
  /\ IF contactPin = "LOW"
     THEN /\ contactDetected' = TRUE
          /\ out' = Append(out, Line(AlreadyDetected, 0))
          /\ Return
     ELSE /\ i' = 0
          /\ pc' = "ccw_loop"
          /\ UNCHANGED <<contactDetected, out, mm, stepsToMove,
                         absStepsToMove, startPosition>>
  /\ sinceContact' = IF contactPin = "LOW" THEN 0 ELSE -1
  /\ UNCHANGED <<currentPosition, isCalibrated, manualControlActive,
                 DIR_PIN, ENA_PIN, contactPin, command, pulses, lastPulse,
                 netPulses, entry, prev, nCmds, edgeSeen>>

\* lines 195-201: the live read of an iteration finds contact
ccwContact ==
  /\ pc = "ccw_loop"
  /\ i < STEPS_PER_COMMAND
  /\ contactPin = "LOW"
  /\ contactDetected' = TRUE
  /\ out' = Append(out, Line(DuringMovement, 0))
  /\ Return
  /\ UNCHANGED <<currentPosition, isCalibrated, manualControlActive, DIR_PIN,
                 ENA_PIN, contactPin, command, histVars>>

\* a jog iteration that goes on to its pulse without looking at the
\* contact line
ccwPass_unchecked ==
  /\ pc = "ccw_loop"
  /\ i < STEPS_PER_COMMAND
  /\ pc' = "ccw_step"
  /\ UNCHANGED <<progVars, contactPin, command, localVars, out, histVars>>

\* lines 195-197: the live read of an iteration finds the line open
ccwPass ==
  /\ pc = "ccw_loop"
  /\ i < STEPS_PER_COMMAND
  /\ contactPin # "LOW"
  /\ pc' = "ccw_step"
  /\ UNCHANGED <<progVars, contactPin, command, localVars, out, histVars>>

\* lines 203-204 and the i++ of the for statement: one pulse, one
\* resolution less
ccwStep ==
  /\ pc = "ccw_step"
  /\ stepMotor("MANUAL:CCW")
  /\ currentPosition' = currentPosition - MM_PER_PULSE
  /\ i' = i + 1
  /\ pc' = "ccw_loop"
  /\ UNCHANGED <<isCalibrated, manualControlActive, DIR_PIN, ENA_PIN,
                 command, mm, stepsToMove, absStepsToMove, startPosition,
                 out, entry, prev, nCmds>>

\* line 195: the for loop runs out
ccwExit ==
  /\ pc = "ccw_loop"
  /\ ~(i < STEPS_PER_COMMAND)
  /\ Return
  /\ UNCHANGED <<progVars, contactPin, command, out, histVars>>

\* ------------------------------------------------------------------------
\* manualStepCW()
\* ------------------------------------------------------------------------
\* a jog that sets the direction but does not enable the driver
cwEntry_noEnable ==
  /\ pc = "manualStepCW"
  /\ IF notCalibrated(isCalibrated)
     THEN /\ out' = Append(out, Line("ERROR:NOT_CALIBRATED", 0))
          /\ Return
          /\ UNCHANGED DIR_PIN
     ELSE /\ DIR_PIN' = "HIGH"
          /\ i' = 0
          /\ pc' = "cw_loop"
          /\ UNCHANGED <<out, mm, stepsToMove, absStepsToMove, startPosition>>
  /\ UNCHANGED <<currentPosition, contactDetected, isCalibrated,
                 manualControlActive, ENA_PIN, contactPin, command, histVars>>

\* lines 209-215: the gate, direction away from the hard-stop, enable
cwEntry ==
  /\ pc = "manualStepCW"
  /\ IF notCalibrated(isCalibrated)
     THEN /\ out' = Append(out, Line("ERROR:NOT_CALIBRATED", 0))
          /\ Return
          /\ UNCHANGED <<DIR_PIN, ENA_PIN>>
     ELSE /\ DIR_PIN' = "HIGH"
          /\ ENA_PIN' = "LOW"
          /\ i' = 0
          /\ pc' = "cw_loop"
          /\ UNCHANGED <<out, mm, stepsToMove, absStepsToMove, startPosition>>
  /\ UNCHANGED <<currentPosition, contactDetected, isCalibrated,
                 manualControlActive, contactPin, command, histVars>>

\* lines 218-221
cwStep ==
  /\ pc = "cw_loop"
  /\ i < STEPS_PER_COMMAND
  /\ stepMotor("MANUAL:CW")
  /\ currentPosition' = currentPosition + MM_PER_PULSE
  /\ i' = i + 1
  /\ UNCHANGED <<isCalibrated, manualControlActive, DIR_PIN, ENA_PIN, pc,
                 command, mm, stepsToMove, absStepsToMove, startPosition,
                 out, entry, prev, nCmds>>

\* a batch that also ends as soon as the contact line reads in-contact
cwExit_onContact ==
  /\ pc = "cw_loop"
  /\ ~(i < STEPS_PER_COMMAND) \/ contactPin = "LOW"
  /\ Return
  /\ UNCHANGED <<progVars, contactPin, command, out, histVars>>

\* line 218: the for loop runs out
cwExit ==
  /\ pc = "cw_loop"
  /\ ~(i < STEPS_PER_COMMAND)
  /\ Return
  /\ UNCHANGED <<progVars, contactPin, command, out, histVars>>

\* ------------------------------------------------------------------------
\* Specification
\* ------------------------------------------------------------------------
Next ==
  \/ ContactChange
  \/ loop
  \/ manualStopMotor
  \/ stopMotor
  \/ calStart \/ calClear \/ calRead \/ calLoop \/ calStep \/ calDone
  \/ mvEntry \/ mvDelay \/ mvStep \/ mvCheck \/ mvDone
  \/ ccwEntry \/ ccwRead \/ ccwContact \/ ccwPass \/ ccwStep \/ ccwExit
  \/ cwEntry \/ cwStep \/ cwExit

Spec == Init /\ [][Next]_vars

\* ------------------------------------------------------------------------
\* The specification of the termination of calibration.  The hard-stop is
\* at most MaxCalPulses pulses away: the pulse that reaches it leaves the
\* contact line in-contact (a falling edge if the line was open).  The main
\* thread never stops inside runCalibration: loop() is the only blocking
\* point of the sketch.
\* ------------------------------------------------------------------------
calStepReach ==
  /\ calStep
  /\ (pulses + 1 >= MaxCalPulses) => contactPin' = "LOW"

runCalibrationSteps ==
  calStart \/ calClear \/ calRead \/ calLoop \/ calStepReach \/ calDone

LiveNext ==
  \/ ContactChange
  \/ loop
  \/ manualStopMotor
  \/ stopMotor
  \/ calStart \/ calClear \/ calRead \/ calLoop \/ calStepReach \/ calDone
  \/ mvEntry \/ mvDelay \/ mvStep \/ mvCheck \/ mvDone
  \/ ccwEntry \/ ccwRead \/ ccwContact \/ ccwPass \/ ccwStep \/ ccwExit
  \/ cwEntry \/ cwStep \/ cwExit

LiveSpec == Init /\ [][LiveNext]_vars /\ WF_vars(runCalibrationSteps)

TypeOK ==
  /\ currentPosition \in Int
  /\ contactDetected \in BOOLEAN
  /\ isCalibrated \in BOOLEAN
  /\ manualControlActive \in BOOLEAN
  /\ DIR_PIN \in Levels /\ ENA_PIN \in Levels /\ contactPin \in Levels
  /\ command \in Commands \cup {NoCommand}
  /\ nCmds \in 0..MaxCmds
  /\ isCalibrated => currentPosition % MM_PER_PULSE = 0

\* ------------------------------------------------------------------------
\* Observers used by the properties
\* ------------------------------------------------------------------------
\* the move in progress (or just returned) reported an unexpected contact
Aborted == command.name = "TARGET:" /\ HasLine(out, UnexpectedContact)

\* the value printed on the "Steps to move: " line of the current command
PlannedSteps ==
  LET ks == {k \in 1..Len(out) : out[k][1] = "Steps to move: "}
  IN  IF ks = {} THEN 0 ELSE out[CHOOSE k \in ks : TRUE][2]

\* the lines that end a TARGET command
TerminalTags == {"STATUS:TARGET_COMPLETE", "ERROR:NOT_CALIBRATED",
                 UnexpectedContact}

TerminalCount == Cardinality({k \in 1..Len(out) : out[k][1] \in TerminalTags})

\* the axis state a refused command must leave alone
AxisUnchanged ==
  /\ currentPosition = entry.pos
  /\ isCalibrated = entry.cal
  /\ manualControlActive = entry.manual
  /\ DIR_PIN = entry.dir
  /\ ENA_PIN = entry.ena

InMoveLoop == pc \in {"mv_loop", "mv_check", "mv_done"}

\* ------------------------------------------------------------------------
\* C1: once calibrated, no pulse is issued toward the hard-stop (direction
\* line LOW) by a TARGET or MANUAL:CCW command while the contact line reads
\* in-contact.
\* ------------------------------------------------------------------------
C1_NoPulseIntoHardStop ==
  (/\ lastPulse.by \in {"TARGET:", "MANUAL:CCW"}
   /\ lastPulse.dir = "LOW")
  => lastPulse.pin = "HIGH"

\* ------------------------------------------------------------------------
\* C2: in a move toward the hard-stop the live contact check precedes every
\* pulse, the first included: from a state of the move in which the contact
\* line reads in-contact, no step issues a pulse.
\* ------------------------------------------------------------------------
C2_CheckBeforeEachPulse ==
  [][(/\ command.name = "TARGET:"
      /\ pc \in {"mv_loop", "mv_check"}
      /\ DIR_PIN = "LOW"
      /\ contactPin = "LOW")
     => pulses' = pulses]_vars

\* ------------------------------------------------------------------------
\* C3: moveTo is idempotent on its target: a TARGET that immediately
\* follows a TARGET to the same value which completed without contact abort
\* plans zero steps, issues no pulse and leaves the position unchanged.
\* ------------------------------------------------------------------------
C3_MoveIdempotent ==
  (/\ command.name = "TARGET:"
   /\ entry.cal
   /\ prev.ok
   /\ prev.mm = command.mm)
  => /\ InMoveLoop => stepsToMove = 0
     /\ pulses = 0
     /\ currentPosition = entry.pos

\* ------------------------------------------------------------------------
\* C4: step-accurate tracking: after calibration, whenever a command has
\* returned and after each pulse of a move or jog, the tracked position
\* equals the net number of pulses since the last calibration completed
\* times the pulse resolution.
\* ------------------------------------------------------------------------
C4_StepAccurateTracking ==
  (/\ isCalibrated
   /\ pc \in {"idle", "mv_loop", "mv_check", "mv_done", "ccw_loop", "cw_loop"})
  => currentPosition = netPulses * MM_PER_PULSE

\* ------------------------------------------------------------------------
\* C5: whenever calibrate() returns, the position is 0, calibrated is true
\* and the driver is disabled, whatever the state it started from.
\* ------------------------------------------------------------------------
C5_CalibrateReturns ==
  (pc = "idle" /\ command.name = "CALIBRATE")
  => /\ currentPosition = 0
     /\ isCalibrated
     /\ ENA_PIN = "HIGH"

\* a calibration returned that started calibrated, away from zero, with the
\* jog gate set and a contact flag latched, and that had to pulse
C5_Witness ==
  /\ pc = "idle" /\ command.name = "CALIBRATE"
  /\ entry.cal /\ entry.pos # 0 /\ entry.manual /\ entry.flag
  /\ pulses > 0

\* ------------------------------------------------------------------------
\* C6 as stated: while uncalibrated, every TARGET, MANUAL:CW and MANUAL:CCW
\* command, jog gate set or not, answers ERROR:NOT_CALIBRATED and nothing
\* else, issues no pulse and leaves the axis state unchanged.
\* ------------------------------------------------------------------------
C6_Original ==
  (/\ pc = "idle"
   /\ command.name \in {"TARGET:", "MANUAL:CW", "MANUAL:CCW"}
   /\ ~entry.cal)
  => /\ out = <<Line("ERROR:NOT_CALIBRATED", 0)>>
     /\ pulses = 0
     /\ AxisUnchanged

\* ------------------------------------------------------------------------
\* C6 amended: while uncalibrated, every TARGET command, and every
\* MANUAL:CW and MANUAL:CCW command received with the jog gate set, answers
\* ERROR:NOT_CALIBRATED and nothing else; gate set or not, no pulse is
\* issued and the axis state is unchanged.
\* ------------------------------------------------------------------------
C6_GateEnforcement ==
  (/\ command.name \in {"TARGET:", "MANUAL:CW", "MANUAL:CCW"}
   /\ ~entry.cal)
  => /\ pulses = 0
     /\ AxisUnchanged
     /\ (pc = "idle" /\ (command.name = "TARGET:" \/ entry.manual))
          => out = <<Line("ERROR:NOT_CALIBRATED", 0)>>

\* an uncalibrated jog with the gate set was refused after the driver had
\* been put to rest
C6_Witness ==
  /\ pc = "idle" /\ command.name = "MANUAL:CCW"
  /\ ~entry.cal /\ entry.manual /\ entry.ena = "HIGH"
  /\ out = <<Line("ERROR:NOT_CALIBRATED", 0)>>

\* ------------------------------------------------------------------------
\* C7 as stated: a calibrated MANUAL:CCW jog issues no pulse if the line
\* reads in-contact at entry; otherwise it issues exactly as many pulses as
\* had been issued when contact first appeared, STEPS_PER_COMMAND if it
\* never did, and the position decreases by one resolution per pulse.
\* ------------------------------------------------------------------------
C7_Original ==
  (/\ pc = "idle"
   /\ command.name = "MANUAL:CCW"
   /\ entry.cal /\ entry.manual)
  => /\ IF sinceContact = -1 THEN pulses = STEPS_PER_COMMAND
                             ELSE sinceContact = 0
     /\ currentPosition = entry.pos - pulses * MM_PER_PULSE

\* ------------------------------------------------------------------------
\* C7: a calibrated MANUAL:CCW jog issues no pulse if its read at entry
\* finds the line in-contact.  Otherwise every pulse follows a live read
\* that found the line open, and the first read that finds contact ends the
\* batch with a warning and without a further pulse: the batch issues the
\* pulses issued before that read, STEPS_PER_COMMAND if no read finds
\* contact, and the position decreases by one resolution per pulse issued.
\* Contact that appears between a read and its pulse does not stop that
\* pulse.
\* ------------------------------------------------------------------------
C7_CcwJogStopsAtContact ==
  [][ /\ (pulses' = pulses + 1 /\ lastPulse'.by = "MANUAL:CCW")
          => pc = "ccw_step"
      /\ (pc = "ccw_loop" /\ pc' = "ccw_step") => contactPin = "HIGH"
      /\ (/\ (pc = "ccw_read" \/ (pc = "ccw_loop" /\ i < STEPS_PER_COMMAND))
          /\ contactPin = "LOW"
          /\ pc' # pc)
          => /\ pc' = "idle"
             /\ pulses' = pulses
             /\ HasLine(out', IF pc = "ccw_loop" THEN DuringMovement
                                                ELSE AlreadyDetected)
      /\ (pc # "idle" /\ pc' = "idle" /\ command.name = "MANUAL:CCW"
             /\ isCalibrated)
          => /\ currentPosition' = entry.pos - pulses' * MM_PER_PULSE
             /\ IF HasLine(out', AlreadyDetected) THEN pulses' = 0
                ELSE IF HasLine(out', DuringMovement)
                     THEN pulses' < STEPS_PER_COMMAND
                     ELSE pulses' = STEPS_PER_COMMAND
    ]_vars

\* contact appeared between a read and its pulse in the middle of a batch:
\* the pulse was issued and the next read ended the batch
C7_Witness ==
  /\ pc = "idle" /\ command.name = "MANUAL:CCW"
  /\ entry.cal /\ entry.manual
  /\ HasLine(out, DuringMovement)
  /\ sinceContact = 1 /\ pulses > 1
  /\ currentPosition = entry.pos - pulses * MM_PER_PULSE

\* ------------------------------------------------------------------------
\* C8: calibrated is sticky: no step resets it, and the only step that
\* sets it is the end of runCalibration.
\* ------------------------------------------------------------------------
C8_CalibratedSticky ==
  [][/\ isCalibrated => isCalibrated'
     /\ (~isCalibrated /\ isCalibrated') => (pc = "cal_done" /\ pc' = "idle")
    ]_vars

\* still calibrated after a REST that followed a move aborted by contact
C8_Witness ==
  /\ isCalibrated /\ pc = "idle"
  /\ command.name = "REST" /\ prev.name = "TARGET:" /\ ~prev.ok

\* ------------------------------------------------------------------------
\* C9: once a move has reported unexpected contact it issues no further
\* pulse and leaves the loop, calibrated stays true, and the tracked
\* position is on the pulse grid within one resolution of the start
\* position displaced by the pulses actually issued.
\* ------------------------------------------------------------------------
C9_AbortLeavesValidPosition ==
  [][/\ Aborted' =>
          /\ pc' \in {"mv_done", "idle"}
          /\ isCalibrated'
          /\ pulses' <= abs(PlannedSteps')
          /\ currentPosition' % MM_PER_PULSE = 0
          /\ abs(currentPosition' - (entry'.pos - pulses' * MM_PER_PULSE))
               <= MM_PER_PULSE
     /\ (Aborted /\ Aborted') => pulses' = pulses
    ]_vars

\* a move of several steps was aborted after its second pulse or later,
\* with planned steps left over
C9_Witness ==
  /\ pc = "idle" /\ Aborted
  /\ pulses >= 2 /\ pulses < abs(PlannedSteps)

\* ------------------------------------------------------------------------
\* C10: every TARGET command ends with exactly one terminal response, and a
\* move that reported the unexpected-contact error does not also report
\* STATUS:TARGET_COMPLETE.
\* ------------------------------------------------------------------------
C10_OneTerminalResponse ==
  (pc = "idle" /\ command.name = "TARGET:")
  => /\ TerminalCount = 1
     /\ ~(HasLine(out, UnexpectedContact)
          /\ HasLine(out, "STATUS:TARGET_COMPLETE"))

\* ------------------------------------------------------------------------
\* C11: REST only disables the driver: when stopMotor() has returned the
\* enable line is in the disabled state, position, calibrated and the jog
\* gate are what they were, and no pulse was issued.
\* ------------------------------------------------------------------------
C11_RestOnlyDisables ==
  (pc = "idle" /\ command.name = "REST")
  => /\ ENA_PIN = "HIGH"
     /\ currentPosition = entry.pos
     /\ isCalibrated = entry.cal
     /\ manualControlActive = entry.manual
     /\ pulses = 0

\* a REST returned that found the driver enabled, the axis calibrated and
\* away from zero, and the jog gate set
C11_Witness ==
  /\ pc = "idle" /\ command.name = "REST"
  /\ entry.ena = "LOW" /\ entry.cal /\ entry.pos # 0 /\ entry.manual

\* ------------------------------------------------------------------------
\* C12: a calibrated move that is not aborted by contact issues
\* |targetStepIndex - current quantized step index| pulses, every one of
\* them away from the hard-stop when the signed delta is positive and
\* toward it when the delta is negative; a zero delta issues none.
\* ------------------------------------------------------------------------
\* targetStepsOf on the targets of the model, evaluated once
TargetStepsTable ==
  [m \in Targets |-> [bits \in DoubleBits |-> targetStepsOf(m, bits)]]

PlannedDelta(bits) ==
  TargetStepsTable[command.mm][bits] - round(entry.pos, MM_PER_PULSE)

C12_PulsesMatchDelta ==
  (command.name = "TARGET:" /\ entry.cal)
  => \E bits \in DoubleBits :
       LET delta == PlannedDelta(bits) IN
       /\ (pulses > 0 /\ pc # "moveToTarget")
            => /\ lastPulse.by = "TARGET:"
               /\ lastPulse.dir = IF delta > 0 THEN "HIGH" ELSE "LOW"
               /\ delta # 0
       /\ pulses <= abs(delta)
       /\ (pc = "idle" /\ ~Aborted) => pulses = abs(delta)

\* a move of several steps toward the hard-stop ran to completion
C12_Witness ==
  /\ pc = "idle" /\ command.name = "TARGET:" /\ entry.cal /\ ~Aborted
  /\ \A bits \in DoubleBits :
       PlannedDelta(bits) < -1 /\ pulses = -PlannedDelta(bits)

\* ------------------------------------------------------------------------
\* C13 as stated: in calibration pulses are issued only while the contact
\* flag is false: once the edge handler has set the flag no new pulse is
\* started, whatever the interleaving of the edge with the pulse loop.
\* ------------------------------------------------------------------------
C13_Original ==
  [][(pc \in CalLabels /\ pulses' # pulses) => ~contactDetected]_vars

\* ------------------------------------------------------------------------
\* C13 amended: in calibration, once the flag is set the loop test never
\* leads to another pulse but to the zeroing of the position; the flag
\* stays set inside the loop, a pulse is issued only after a loop test that
\* found the flag false, so at most the one pulse whose loop test had
\* already passed when the edge fired is still issued.
\* ------------------------------------------------------------------------
C13_NoPulseOnceFlagSet ==
  [][/\ (pc = "cal_loop" /\ contactDetected)
          => /\ pulses' = pulses
             /\ contactDetected'
             /\ pc' \in {"cal_loop", "cal_done"}
     /\ (pc # "cal_step" /\ pc' = "cal_step")
          => (pc = "cal_loop" /\ ~contactDetected)
     /\ (pc \in CalLabels /\ pulses' # pulses)
          => (pc = "cal_step" /\ pc' = "cal_loop" /\ pulses' = pulses + 1)
     /\ (pc = "cal_step" /\ contactDetected) => contactDetected'
     /\ (pc = "cal_done" /\ pc' # "cal_done") => currentPosition' = 0
    ]_vars

\* the edge fired between the loop test and the pulse it had decided on
C13_Witness ==
  /\ pc = "cal_step" /\ contactDetected /\ pulses > 0

\* ------------------------------------------------------------------------
\* C14: if the live read at the entry of calibration finds the line
\* in-contact, calibration issues no pulse and completes at once with the
\* position 0 and calibrated true.
\* ------------------------------------------------------------------------
AlreadyInContact ==
  command.name = "CALIBRATE" /\ HasLine(out, "Contact already detected!")

C14_AlreadyInContactNoPulse ==
  AlreadyInContact
  => /\ pulses = 0
     /\ pc \in {"cal_done", "idle"}
     /\ pc = "idle" => (currentPosition = 0 /\ isCalibrated)

\* such a calibration returned, from a calibrated axis away from zero
C14_Witness ==
  /\ AlreadyInContact /\ pc = "idle"
  /\ entry.cal /\ entry.pos # 0

\* ------------------------------------------------------------------------
\* C15: calibration terminates: every CALIBRATE command that is dispatched
\* eventually returns having printed STATUS:CALIBRATION_COMPLETE, whatever
\* the start position and however the edge interleaves with the flag clear
\* and the live read at entry.
\* ------------------------------------------------------------------------
CalibrationComplete ==
  /\ pc = "idle" /\ command.name = "CALIBRATE"
  /\ HasLine(out, "STATUS:CALIBRATION_COMPLETE")

C15_CalibrationTerminates == (pc = "runCalibration") ~> CalibrationComplete

\* a calibration completed on the pulse that reached the hard-stop, after
\* the flag had been latched before the clear at entry
C15_Witness ==
  /\ CalibrationComplete
  /\ entry.flag /\ pulses = MaxCalPulses /\ edgeSeen

\* ------------------------------------------------------------------------
\* C16: a calibrated MANUAL:CW jog issues exactly STEPS_PER_COMMAND pulses
\* away from the hard-stop and adds that many resolutions to the position,
\* whatever the contact line or the flag read.
\* ------------------------------------------------------------------------
C16_CwJogFullBatch ==
  (/\ pc = "idle"
   /\ command.name = "MANUAL:CW"
   /\ entry.cal /\ entry.manual)
  => /\ pulses = STEPS_PER_COMMAND
     /\ lastPulse.by = "MANUAL:CW" /\ lastPulse.dir = "HIGH"
     /\ DIR_PIN = "HIGH"
     /\ currentPosition = entry.pos + STEPS_PER_COMMAND * MM_PER_PULSE

\* a full batch ran although the line read in-contact at entry and at the
\* end, with the flag latched
C16_Witness ==
  /\ pc = "idle" /\ command.name = "MANUAL:CW"
  /\ entry.cal /\ entry.manual
  /\ entry.pin = "LOW" /\ entry.flag /\ contactPin = "LOW"
  /\ pulses = STEPS_PER_COMMAND

\* ------------------------------------------------------------------------
\* C17: the jog gate is true after MANUAL:READY and false after
\* MANUAL:COMPLETE, which change neither calibrated nor the position; at
\* every point of every other command, error and warning paths included,
\* the gate is what it was when the command was read.
\* ------------------------------------------------------------------------
C17_GateOnlyByReadyComplete ==
  /\ command.name = "MANUAL:READY"
       => /\ manualControlActive
          /\ isCalibrated = entry.cal /\ currentPosition = entry.pos
  /\ command.name = "MANUAL:COMPLETE"
       => /\ ~manualControlActive
          /\ isCalibrated = entry.cal /\ currentPosition = entry.pos
  /\ command.name \in CommandNames \ {"MANUAL:READY", "MANUAL:COMPLETE"}
       => manualControlActive = entry.manual

\* the gate is still set after a jog that ended on a contact warning
C17_Witness ==
  /\ pc = "idle" /\ command.name = "MANUAL:CCW"
  /\ manualControlActive
  /\ HasLine(out, DuringMovement)

\* ------------------------------------------------------------------------
\* C18: a MANUAL:CW or MANUAL:CCW command received while the jog gate is
\* false is ignored: no pulse, no change of the axis state, and no response
\* line at all (no error, no unknown-command line).
\* ------------------------------------------------------------------------
C18_UngatedJogIgnored ==
  (/\ pc = "idle"
   /\ command.name \in {"MANUAL:CW", "MANUAL:CCW"}
   /\ ~entry.manual)
  => /\ pulses = 0
     /\ AxisUnchanged
     /\ out = <<>>

\* ------------------------------------------------------------------------
\* C19: every step pulse is issued while the enable line is in the enabled
\* state (LOW), also by a motion command that follows REST or CALIBRATE.
\* ------------------------------------------------------------------------
C19_PulsesOnlyWhenEnabled ==
  lastPulse.by # "none" => lastPulse.ena = "LOW"

\* a jog away from the hard-stop pulsed after the driver had been left
\* disabled by the command before it
C19_Witness ==
  /\ command.name = "MANUAL:CW" /\ pulses > 0
  /\ entry.ena = "HIGH" /\ prev.name \in {"REST", "CALIBRATE"}
  /\ lastPulse.by = "MANUAL:CW"

\* ------------------------------------------------------------------------
\* C20: calibration sets its zero reference only on contact observed
\* during the same invocation: it reaches its final statements only if,
\* after the flag was cleared at entry, the live read found the line
\* in-contact or the interrupt handler ran; a flag latched by an earlier
\* command does not end it.
\* ------------------------------------------------------------------------
C20_ZeroOnlyOnFreshContact ==
  (/\ command.name = "CALIBRATE"
   /\ pc \in {"cal_done", "idle"})
  => (AlreadyInContact \/ edgeSeen)

\* a calibration that started with the flag latched and the line open had
\* to pulse until the handler ran
C20_Witness ==
  /\ command.name = "CALIBRATE" /\ pc = "idle"
  /\ entry.flag /\ entry.pin = "HIGH"
  /\ pulses > 0 /\ edgeSeen /\ ~AlreadyInContact

====
